---- MODULE Spec2Model ----
(***************************************************************************)
(* Pulse demodulators of rtl_433 (src/pulse_demod.c): PCM, PPM, PWM,       *)
(* PWM-Precise, PWM-Ternary and Manchester-ZeroBit.                        *)
(*                                                                         *)
(* One behaviour is one call of one demodulator on one pulse train.  Each  *)
(* loop iteration of a demodulator is one action.  Durations are kept far  *)
(* below 2^31, so the unsigned/int conversions of the C code never wrap    *)
(* and plain integer arithmetic gives the C results; all operands of the   *)
(* divisions are non-negative, so \div is C's truncating division.         *)
(* The debug printouts (fprintf, bitbuffer_print) change no state and are  *)
(* left out.                                                               *)
(***************************************************************************)
EXTENDS Integers, Sequences, FiniteSets, TLC

VARIABLES
    decoder,             \* which pulse_demod_* function is being called
    device,              \* struct protocol_state (and *demod_arg for PWM-Precise)
    pulses,              \* pulse_data_t: num_pulses, pulse[], gap[]
    pc,                  \* "entry", "loop", "done"
    n,                   \* loop index (number of pulses consumed)
    events,              \* int events
    bits,                \* bitbuffer_t bits: sequence of rows of bits
    start_bit_detected,  \* pulse_demod_pwm
    time_since_last,     \* pulse_demod_manchester_zerobit
    ret,                 \* value returned by the call (once pc = "done")
    orig,                \* history: for every bit of bits, <<index n that appended it, position of that add in oplog>>
    oplog,               \* history: bit sink operations and callback invocations
    calls                \* history: one record per callback invocation

vars == <<decoder, device, pulses, pc, n, events, bits, start_bit_detected,
          time_since_last, ret, orig, oplog, calls>>

---------------------------------------------------------------------------
(* Bounds *)

\* longest pulse train
MaxPulses == 3
\* largest value one callback invocation returns
MaxCbRet == 1

CbRets == 0 .. MaxCbRet

---------------------------------------------------------------------------
(* Helpers of the C library used by the code *)

min(a, b) == IF a < b THEN a ELSE b

abs(x) == IF x < 0 THEN -x ELSE x

---------------------------------------------------------------------------
(* Bit Sink (bitbuffer.h).  A value is a non-empty sequence of rows; the   *)
(* zero-initialised / cleared buffer is one empty row.                     *)

EmptyBits == << <<>> >>

bitbuffer_add_bit(b, bit) == [b EXCEPT ![Len(b)] = Append(@, bit)]

bitbuffer_add_row(b) == Append(b, <<>>)

bitbuffer_clear(b) == EmptyBits

\* bits.bits_per_row[0]
bits_per_row0(b) == Len(b[1])

---------------------------------------------------------------------------
(* The locals of one loop iteration, threaded through its statements:      *)
(* s.bits, s.events are the C locals; s.orig, s.oplog, s.calls are the     *)
(* history kept beside them.  k is the loop index of the statement.        *)

Op(k, name, arg) == [n |-> k, op |-> name, arg |-> arg]

AddBit(s, k, bit) ==
    [s EXCEPT !.bits = bitbuffer_add_bit(@, bit),
              !.orig = bitbuffer_add_bit(@, <<k, Len(s.oplog) + 1>>),
              !.oplog = Append(@, Op(k, "add_bit", bit))]

AddRow(s, k) ==
    [s EXCEPT !.bits = bitbuffer_add_row(@),
              !.orig = bitbuffer_add_row(@),
              !.oplog = Append(@, Op(k, "add_row", 0))]

Clear(s, k) ==
    [s EXCEPT !.bits = bitbuffer_clear(@),
              !.orig = bitbuffer_clear(@),
              !.oplog = Append(@, Op(k, "clear", 0))]

RECURSIVE AddBits(_, _, _, _)
\* for (int i=0; i < count; ++i) bitbuffer_add_bit(&bits, bit);
AddBits(s, k, bit, count) ==
    IF count <= 0 THEN s ELSE AddBits(AddBit(s, k, bit), k, bit, count - 1)

\* variant: the callback's value replaces the running total (= for +=)
InvokeCallback_assign(s, k, r) ==
    IF device.callback
    THEN [s EXCEPT !.events = r,
                   !.oplog = Append(@, Op(k, "callback", r)),
                   !.calls = Append(@, [n |-> k, bits |-> s.bits,
                                        orig |-> s.orig, ret |-> r])]
    ELSE s

\* if (device->callback) events += device->callback(&bits);
\* r is the value the callback returns when it is invoked.
InvokeCallback(s, k, r) ==
    IF device.callback
    THEN [s EXCEPT !.events = @ + r,
                   !.oplog = Append(@, Op(k, "callback", r)),
                   !.calls = Append(@, [n |-> k, bits |-> s.bits,
                                        orig |-> s.orig, ret |-> r])]
    ELSE s

\* variant: the sink is not cleared after the callback
EndOfMessage_noclear(s, k, r) == InvokeCallback(s, k, r)

\* The block every demodulator runs at end of message:
\* callback if registered, then bitbuffer_clear.
EndOfMessage(s, k, r) == Clear(InvokeCallback(s, k, r), k)

Locals == [bits |-> bits, orig |-> orig, oplog |-> oplog,
           events |-> events, calls |-> calls,
           start_bit_detected |-> start_bit_detected,
           time_since_last |-> time_since_last,
           aborted |-> FALSE, retval |-> ret]

\* Store the locals back; the iteration either goes on to the next pulse
\* or (s.aborted) has executed a return statement inside the loop.
Commit(s) ==
    /\ bits' = s.bits
    /\ orig' = s.orig
    /\ oplog' = s.oplog
    /\ events' = s.events
    /\ calls' = s.calls
    /\ start_bit_detected' = s.start_bit_detected
    /\ time_since_last' = s.time_since_last
    /\ IF s.aborted
       THEN pc' = "done" /\ ret' = s.retval /\ n' = n
       ELSE pc' = pc /\ ret' = ret /\ n' = n + 1
    /\ UNCHANGED <<decoder, device, pulses>>

---------------------------------------------------------------------------
(* pulse_demod_pcm *)

pcm_MAX_ZEROS == device.reset_limit \div device.long_limit

pcm_TOLERANCE == device.long_limit \div 4

pcm_highs(pu) == (pu + device.short_limit \div 2) \div device.short_limit

pcm_periods(pu, gp) == (pu + gp + device.long_limit \div 2) \div device.long_limit

\* variant: the run of zeros is not limited
pcm_zeros_noclamp(pu, gp) == pcm_periods(pu, gp) - pcm_highs(pu)

\* periods -= highs; periods = min(periods, MAX_ZEROS);
pcm_zeros(pu, gp) == min(pcm_periods(pu, gp) - pcm_highs(pu), pcm_MAX_ZEROS)

\* variant: the pulse is compared with long_limit
pcm_corrupt_long(pu) ==
    /\ device.short_limit # device.long_limit
    /\ abs(pu - device.long_limit) > pcm_TOLERANCE

\* Validate data: only for RZ coding, pulse must be within tolerance
pcm_corrupt(pu) ==
    /\ device.short_limit # device.long_limit
    /\ abs(pu - device.short_limit) > pcm_TOLERANCE

\* variant: the last pulse of the train is not an end of message
pcm_end_of_message_nolast(s, k, gp) ==
    /\ gp > device.reset_limit
    /\ bits_per_row0(s.bits) > 0

\* variant: without the test that data has been accumulated
pcm_end_of_message_nocheck(s, k, gp) ==
    \/ k = pulses.num_pulses - 1
    \/ gp > device.reset_limit

\* End of Message?  (s: the locals after validation)
pcm_end_of_message(s, k, gp) ==
    /\ \/ k = pulses.num_pulses - 1
       \/ gp > device.reset_limit
    /\ bits_per_row0(s.bits) > 0

\* variant: a corrupt pulse leaves the bit sink as it is
pcm_body_noclear(s, k, pu, gp, r) ==
    LET s1 == AddBits(s, k, 1, pcm_highs(pu))
        s2 == AddBits(s1, k, 0, pcm_zeros(pu, gp))
    IN  IF pcm_end_of_message(s2, k, gp) THEN EndOfMessage(s2, k, r) ELSE s2

\* body of the for loop, iteration k with pulse pu and gap gp
pcm_body(s, k, pu, gp, r) ==
    LET s1 == AddBits(s, k, 1, pcm_highs(pu))
        s2 == AddBits(s1, k, 0, pcm_zeros(pu, gp))
        s3 == IF pcm_corrupt(pu) THEN Clear(s2, k) ELSE s2
    IN  IF pcm_end_of_message(s3, k, gp) THEN EndOfMessage(s3, k, r) ELSE s3

---------------------------------------------------------------------------
(* pulse_demod_ppm *)

\* variant: a gap equal to short_limit still counts as short (<= for <)
ppm_body_le(s, k, pu, gp, r) ==
    IF gp <= device.short_limit THEN AddBit(s, k, 0)
    ELSE IF gp < device.long_limit THEN AddBit(s, k, 1)
    ELSE IF gp < device.reset_limit THEN AddRow(s, k)
    ELSE EndOfMessage(s, k, r)

ppm_body(s, k, pu, gp, r) ==
    IF gp < device.short_limit THEN AddBit(s, k, 0)
    ELSE IF gp < device.long_limit THEN AddBit(s, k, 1)
    ELSE IF gp < device.reset_limit THEN AddRow(s, k)
    ELSE EndOfMessage(s, k, r)

---------------------------------------------------------------------------
(* pulse_demod_pwm *)

\* variant: start_bit is tested as a boolean
pwm_skip_start_bit_bool(s) == device.demod_arg # 0 /\ s.start_bit_detected = 0

\* Should we disregard startbit?  (start_bit = device->demod_arg)
pwm_skip_start_bit(s) == device.demod_arg = 1 /\ s.start_bit_detected = 0

\* variant: a pulse equal to short_limit counts as long (< for <=)
pwm_bit_lt(pu) == IF pu < device.short_limit THEN 1 ELSE 0

\* Detect pulse width
pwm_bit(pu) == IF pu <= device.short_limit THEN 1 ELSE 0

\* variant: a new row does not re-arm the start bit
pwm_body_rowkeeps(s, k, pu, gp, r) ==
    LET s1 == IF pwm_skip_start_bit(s)
              THEN [s EXCEPT !.start_bit_detected = 1]
              ELSE AddBit(s, k, pwm_bit(pu))
    IN  IF gp > device.reset_limit
        THEN [EndOfMessage(s1, k, r) EXCEPT !.start_bit_detected = 0]
        ELSE IF gp > device.long_limit
        THEN AddRow(s1, k)
        ELSE s1

pwm_body(s, k, pu, gp, r) ==
    LET s1 == IF pwm_skip_start_bit(s)
              THEN [s EXCEPT !.start_bit_detected = 1]
              ELSE AddBit(s, k, pwm_bit(pu))
    IN  IF gp > device.reset_limit
        THEN [EndOfMessage(s1, k, r) EXCEPT !.start_bit_detected = 0]
        ELSE IF gp > device.long_limit
        THEN [AddRow(s1, k) EXCEPT !.start_bit_detected = 0]
        ELSE s1

---------------------------------------------------------------------------
(* pulse_demod_pwm_precise *)

\* variant: a pulse exactly pulse_tolerance away is still short (<= for <)
precise_short_le(pu) == abs(pu - device.short_limit) <= device.pulse_tolerance

precise_short(pu) == abs(pu - device.short_limit) < device.pulse_tolerance

precise_long(pu) == abs(pu - device.long_limit) < device.pulse_tolerance

precise_sync(pu) ==
    /\ device.pulse_sync_width # 0
    /\ abs(pu - device.pulse_sync_width) < device.pulse_tolerance

\* variant: the events gathered so far are returned
precise_abort_events(s) == [s EXCEPT !.aborted = TRUE, !.retval = s.events]

\* return 0;  // Pulse outside specified timing
precise_abort(s) == [s EXCEPT !.aborted = TRUE, !.retval = 0]

precise_body(s, k, pu, gp, r) ==
    IF ~(precise_short(pu) \/ precise_long(pu) \/ precise_sync(pu))
    THEN precise_abort(s)
    ELSE LET s1 == IF precise_short(pu) THEN AddBit(s, k, 1)
                   ELSE IF precise_long(pu) THEN AddBit(s, k, 0)
                   ELSE AddRow(s, k)
         IN  IF gp > device.reset_limit THEN EndOfMessage(s1, k, r) ELSE s1

---------------------------------------------------------------------------
(* pulse_demod_pwm_ternary *)

\* variant: with the short band as sync, a middle pulse gives 1
ternary_symbol_mid1(sync_bit, pu) ==
    IF pu < device.short_limit
    THEN (IF sync_bit = 0 THEN "add_row" ELSE "0")
    ELSE IF pu < device.long_limit
    THEN (IF sync_bit = 1 THEN "add_row" ELSE "1")
    ELSE (IF sync_bit = 2 THEN "add_row" ELSE "1")

\* variant: selector 2 is not tested, a long pulse always gives 1
ternary_symbol_long1(sync_bit, pu) ==
    IF pu < device.short_limit
    THEN (IF sync_bit = 0 THEN "add_row" ELSE "0")
    ELSE IF pu < device.long_limit
    THEN (IF sync_bit = 0 THEN "0"
          ELSE IF sync_bit = 1 THEN "add_row"
          ELSE "1")
    ELSE "1"

\* The bit sink operation chosen for one pulse under sync selector sync_bit:
\* "add_row", or the bit to add.
ternary_symbol(sync_bit, pu) ==
    IF pu < device.short_limit
    THEN (IF sync_bit = 0 THEN "add_row" ELSE "0")
    ELSE IF pu < device.long_limit
    THEN (IF sync_bit = 0 THEN "0"
          ELSE IF sync_bit = 1 THEN "add_row"
          ELSE "1")
    ELSE (IF sync_bit = 2 THEN "add_row" ELSE "1")

\* variant: a gap equal to reset_limit ends the transmission (>= for >)
ternary_body_ge(s, k, pu, gp, r) ==
    LET sym == ternary_symbol(device.demod_arg, pu)
        s1 == IF sym = "add_row" THEN AddRow(s, k)
              ELSE IF sym = "0" THEN AddBit(s, k, 0)
              ELSE AddBit(s, k, 1)
    IN  IF gp >= device.reset_limit THEN EndOfMessage(s1, k, r) ELSE s1

ternary_body(s, k, pu, gp, r) ==
    LET sym == ternary_symbol(device.demod_arg, pu)
        s1 == IF sym = "add_row" THEN AddRow(s, k)
              ELSE IF sym = "0" THEN AddBit(s, k, 0)
              ELSE AddBit(s, k, 1)
    IN  IF gp > device.reset_limit THEN EndOfMessage(s1, k, r) ELSE s1

---------------------------------------------------------------------------
(* pulse_demod_manchester_zerobit *)

\* device->short_limit + (device->short_limit>>1)
manchester_threshold == device.short_limit + device.short_limit \div 2

\* variant: the falling data edge records 0
manchester_pulse_zero(s, k, pu) ==
    IF pu + s.time_since_last > manchester_threshold
    THEN [AddBit(s, k, 0) EXCEPT !.time_since_last = 0]
    ELSE [s EXCEPT !.time_since_last = @ + pu]

\* variant: time_since_last keeps running after the falling data edge
manchester_pulse_noreset(s, k, pu) ==
    IF pu + s.time_since_last > manchester_threshold
    THEN [AddBit(s, k, 1) EXCEPT !.time_since_last = @ + pu]
    ELSE [s EXCEPT !.time_since_last = @ + pu]

\* Falling edge is on end of pulse
manchester_pulse(s, k, pu) ==
    IF pu + s.time_since_last > manchester_threshold
    THEN [AddBit(s, k, 1) EXCEPT !.time_since_last = 0]
    ELSE [s EXCEPT !.time_since_last = @ + pu]

\* variant: no hardcoded 0 after the clear
manchester_gap_nozero(s, k, gp, r) ==
    IF gp > device.reset_limit
    THEN [EndOfMessage(s, k, r) EXCEPT !.time_since_last = 0]
    ELSE IF gp + s.time_since_last > manchester_threshold
    THEN [AddBit(s, k, 0) EXCEPT !.time_since_last = 0]
    ELSE [s EXCEPT !.time_since_last = @ + gp]

\* End of Message?  else: rising edge is on end of gap
manchester_gap(s, k, gp, r) ==
    IF gp > device.reset_limit
    THEN [AddBit(EndOfMessage(s, k, r), k, 0) EXCEPT !.time_since_last = 0]
    ELSE IF gp + s.time_since_last > manchester_threshold
    THEN [AddBit(s, k, 0) EXCEPT !.time_since_last = 0]
    ELSE [s EXCEPT !.time_since_last = @ + gp]

manchester_body(s, k, pu, gp, r) ==
    manchester_gap(manchester_pulse(s, k, pu), k, gp, r)

---------------------------------------------------------------------------
(* Inputs: the protocol definitions and pulse trains the model explores.   *)

Decoders == {"pcm", "ppm", "pwm", "pwm_precise", "pwm_ternary", "manchester_zerobit"}

Dev(sl, ll, rl, arg, cb, tol, sync) ==
    [short_limit |-> sl, long_limit |-> ll, reset_limit |-> rl, demod_arg |-> arg,
     callback |-> cb, pulse_tolerance |-> tol, pulse_sync_width |-> sync]

\* struct protocol_state values per demodulator.  They include NRZ coding
\* (short_limit = long_limit), an absent callback, limits out of the
\* expected order, every sync selector and a PWM-Precise set-up without sync.
Devices(d) ==
    CASE d = "pcm" ->
           {Dev(4, 8, 16, 0, TRUE, 0, 0), Dev(4, 4, 4, 0, TRUE, 0, 0),
            Dev(4, 8, 16, 0, FALSE, 0, 0)}
      [] d = "ppm" ->
           {Dev(10, 20, 30, 0, TRUE, 0, 0), Dev(9, 11, 21, 0, TRUE, 0, 0),
            Dev(10, 20, 30, 0, FALSE, 0, 0)}
      [] d = "pwm" ->
           {Dev(2, 4, 6, a, TRUE, 0, 0) : a \in {0, 1, 2}}
           \cup {Dev(2, 6, 4, 1, TRUE, 0, 0), Dev(2, 4, 6, 1, FALSE, 0, 0)}
      [] d = "pwm_precise" ->
           {Dev(4, 8, 10, 0, TRUE, 2, sw) : sw \in {0, 12}}
           \cup {Dev(4, 8, 10, 0, FALSE, 2, 12)}
      [] d = "pwm_ternary" ->
           {Dev(2, 4, 6, a, TRUE, 0, 0) : a \in {0, 1, 2, 3}}
      [] d = "manchester_zerobit" ->
           {Dev(2, 4, 6, 0, TRUE, 0, 0), Dev(3, 6, 2, 0, TRUE, 0, 0),
            Dev(2, 4, 6, 0, FALSE, 0, 0)}

\* pulse durations fed to each demodulator
PulseWidths(d) ==
    CASE d = "pcm" -> {1, 4, 6, 7}
      [] d = "ppm" -> {5, 25}
      [] d = "pwm" -> {2, 3}
      [] d = "pwm_precise" -> {5, 6, 9, 13}
      [] d = "pwm_ternary" -> {1, 2, 4}
      [] d = "manchester_zerobit" -> {2, 4}

\* gap durations fed to each demodulator
GapWidths(d) ==
    CASE d = "pcm" -> {0, 4, 28}
      [] d = "ppm" -> {9, 11, 21, 31}
      [] d = "pwm" -> {4, 5, 7}
      [] d = "pwm_precise" -> {10, 11}
      [] d = "pwm_ternary" -> {6, 7}
      [] d = "manchester_zerobit" -> {2, 4, 7}

\* the four-gap PPM train [short-1, short+1, long+1, reset+1] for limits 10/20/30
PpmExampleTrain == [num_pulses |-> 4, pulse |-> <<5, 5, 5, 5>>, gap |-> <<9, 11, 21, 31>>]

Trains(d) ==
    UNION {[num_pulses : {len}, pulse : [1 .. len -> PulseWidths(d)],
            gap : [1 .. len -> GapWidths(d)]] : len \in 0 .. MaxPulses}
    \cup (IF d = "ppm" THEN {PpmExampleTrain} ELSE {})

---------------------------------------------------------------------------
(* The call *)

Init ==
    /\ decoder \in Decoders
    /\ device \in Devices(decoder)
    /\ pulses \in Trains(decoder)
    /\ pc = IF decoder = "manchester_zerobit" THEN "entry" ELSE "loop"
    /\ n = 0
    /\ events = 0
    /\ bits = EmptyBits
    /\ start_bit_detected = 0
    /\ time_since_last = 0
    /\ ret = 0
    /\ orig = EmptyBits
    /\ oplog = <<>>
    /\ calls = <<>>

InLoop(d) == decoder = d /\ pc = "loop" /\ n < pulses.num_pulses

pulse_demod_pcm ==
    /\ InLoop("pcm")
    /\ \E r \in CbRets :
         Commit(pcm_body(Locals, n, pulses.pulse[n + 1], pulses.gap[n + 1], r))

pulse_demod_ppm ==
    /\ InLoop("ppm")
    /\ \E r \in CbRets :
         Commit(ppm_body(Locals, n, pulses.pulse[n + 1], pulses.gap[n + 1], r))

pulse_demod_pwm ==
    /\ InLoop("pwm")
    /\ \E r \in CbRets :
         Commit(pwm_body(Locals, n, pulses.pulse[n + 1], pulses.gap[n + 1], r))

pulse_demod_pwm_precise ==
    /\ InLoop("pwm_precise")
    /\ \E r \in CbRets :
         Commit(precise_body(Locals, n, pulses.pulse[n + 1], pulses.gap[n + 1], r))

pulse_demod_pwm_ternary ==
    /\ InLoop("pwm_ternary")
    /\ \E r \in CbRets :
         Commit(ternary_body(Locals, n, pulses.pulse[n + 1], pulses.gap[n + 1], r))

\* bitbuffer_add_bit(&bits, 0) ahead of the loop: the hardcoded leading zero
manchester_entry ==
    /\ decoder = "manchester_zerobit" /\ pc = "entry"
    /\ pc' = "loop"
    /\ bits' = bitbuffer_add_bit(bits, 0)
    /\ orig' = bitbuffer_add_bit(orig, <<-1, 1>>)
    /\ oplog' = Append(oplog, Op(-1, "add_bit", 0))
    /\ UNCHANGED <<decoder, device, pulses, n, events, start_bit_detected,
                   time_since_last, ret, calls>>

pulse_demod_manchester_zerobit ==
    /\ InLoop("manchester_zerobit")
    /\ \E r \in CbRets :
         Commit(manchester_body(Locals, n, pulses.pulse[n + 1], pulses.gap[n + 1], r))

\* the value handed back after the loop
ReturnValue == events

\* return events;  (after the last pulse)
ReturnEvents ==
    /\ pc = "loop" /\ n = pulses.num_pulses
    /\ pc' = "done"
    /\ ret' = ReturnValue
    /\ UNCHANGED <<decoder, device, pulses, n, events, bits, start_bit_detected,
                   time_since_last, orig, oplog, calls>>

Next ==
    \/ pulse_demod_pcm
    \/ pulse_demod_ppm
    \/ pulse_demod_pwm
    \/ pulse_demod_pwm_precise
    \/ pulse_demod_pwm_ternary
    \/ manchester_entry
    \/ pulse_demod_manchester_zerobit
    \/ ReturnEvents

Spec == Init /\ [][Next]_vars

---------------------------------------------------------------------------
(* Vocabulary of the properties *)

Done == pc = "done"

\* the pulse and gap of iteration k (0-based, as in the code)
PulseAt(k) == pulses.pulse[k + 1]

GapAt(k) == pulses.gap[k + 1]

\* the operations iteration k performed, in order
RECURSIVE OpsOf(_, _)
OpsOf(log, k) ==
    IF log = <<>> THEN <<>>
    ELSE IF Head(log).n = k
         THEN <<[op |-> Head(log).op, arg |-> Head(log).arg]>> \o OpsOf(Tail(log), k)
         ELSE OpsOf(Tail(log), k)

\* the operations without the values the callback returned:
\* "0", "1" (a bit added), "add_row", "clear", "callback"
RECURSIVE OpNames(_)
OpNames(ops) ==
    IF ops = <<>> THEN <<>>
    ELSE <<IF Head(ops).op # "add_bit" THEN Head(ops).op
           ELSE IF Head(ops).arg = 0 THEN "0" ELSE "1">>
         \o OpNames(Tail(ops))

Did(k) == OpNames(OpsOf(oplog, k))

RECURSIVE SumRet(_)
SumRet(cs) == IF cs = <<>> THEN 0 ELSE Head(cs).ret + SumRet(Tail(cs))

\* the loop indices whose bits a callback invocation received
Delivered(c) == UNION {{c.orig[i][j][1] : j \in 1 .. Len(c.orig[i])} : i \in 1 .. Len(c.orig)}

\* the bits themselves (each add is told apart by its place in oplog)
DeliveredBits(c) == UNION {{c.orig[i][j] : j \in 1 .. Len(c.orig[i])} : i \in 1 .. Len(c.orig)}

TypeOK ==
    /\ decoder \in Decoders
    /\ pc \in {"entry", "loop", "done"}
    /\ n \in 0 .. pulses.num_pulses
    /\ Len(bits) = Len(orig)
    /\ \A i \in 1 .. Len(bits) : Len(bits[i]) = Len(orig[i])

---------------------------------------------------------------------------
(* Returned event count *)

\* PWM-Precise: pulse pu lies inside none of the configured tolerance bands
NoBand(pu) ==
    LET In(ref) == ref - device.pulse_tolerance < pu /\ pu < ref + device.pulse_tolerance
    IN  /\ ~In(device.short_limit)
        /\ ~In(device.long_limit)
        /\ ~(device.pulse_sync_width # 0 /\ In(device.pulse_sync_width))

\* the train holds a pulse that PWM-Precise rejects
HasNoBandPulse == \E k \in 0 .. pulses.num_pulses - 1 : NoBand(PulseAt(k))

\* the first such pulse
FirstNoBand ==
    CHOOSE k \in 0 .. pulses.num_pulses - 1 :
        NoBand(PulseAt(k)) /\ \A j \in 0 .. k - 1 : ~NoBand(PulseAt(j))

\* C1 as stated: for every decoder and every pulse train, the integer the
\* call returns equals the sum of the values the callback returned during
\* that call.
C1_ReturnIsSumOfCallbacks == Done => ret = SumRet(calls)

\* C1 amended: the returned integer equals the sum of the callback return
\* values, except that a PWM-Precise call that meets a pulse inside no
\* tolerance band returns 0 whatever the callback returned before.
C1_ReturnIsSumUnlessPreciseAbort ==
    Done => ret = IF decoder = "pwm_precise" /\ HasNoBandPulse THEN 0 ELSE SumRet(calls)

\* two frames were delivered, each counted one event, and the call returned 2
C1_Witness == Done /\ Len(calls) = 2 /\ calls[1].ret = 1 /\ calls[2].ret = 1 /\ ret = 2

---------------------------------------------------------------------------
(* PWM-Precise: fatal timing violation *)

\* the loop indices whose bits are in the bit sink now
Held == UNION {{orig[i][j][1] : j \in 1 .. Len(orig[i])} : i \in 1 .. Len(orig)}

\* C2: in PWM-Precise the first pulse inside none of the tolerance bands
\* ends the call at once: the loop never goes past it, the call returns 0,
\* no callback is invoked at or after that pulse, and the bits accumulated
\* since the last boundary are passed to no callback.
C2_PreciseAbort ==
    (decoder = "pwm_precise" /\ HasNoBandPulse) =>
        /\ n <= FirstNoBand
        /\ \A i \in 1 .. Len(calls) : calls[i].n < FirstNoBand
        /\ Done => /\ n = FirstNoBand
                   /\ ret = 0
                   /\ \A i \in 1 .. Len(calls) : Delivered(calls[i]) \cap Held = {}

\* a frame was delivered and counted, more bits were accumulated, then the
\* rejected pulse ended the call
C2_Witness ==
    /\ decoder = "pwm_precise" /\ HasNoBandPulse /\ Done
    /\ FirstNoBand = 2
    /\ Len(calls) = 1 /\ events = 1
    /\ Held = {1}
    /\ ret = 0

---------------------------------------------------------------------------
(* PCM: frame corruption *)

\* PCM: pulse pu is out of tolerance (checked for RZ coding only)
PcmOutOfTolerance(pu) ==
    /\ device.short_limit # device.long_limit
    /\ \/ pu - device.short_limit > device.long_limit \div 4
       \/ device.short_limit - pu > device.long_limit \div 4

\* iteration i cleared the bit sink
ClearedAt(i) == \E x \in 1 .. Len(oplog) : oplog[x].n = i /\ oplog[x].op = "clear"

\* the iterations of the frame in progress when iteration k starts
FrameBefore(k) == {j \in 0 .. k - 1 : \A i \in j .. k - 1 : ~ClearedAt(i)}

\* C3: in PCM with short_limit # long_limit, a pulse k out of tolerance
\* clears the bit sink and invokes no callback at k, also when k is the last
\* pulse or is followed by a gap > reset_limit; the bits accumulated before
\* and at k reach no callback, decoding goes on with pulse k+1 and the event
\* total of the earlier frames is kept.
C3_PcmCorruptFrame ==
    decoder = "pcm" =>
        /\ events = SumRet(calls)
        /\ Done => n = pulses.num_pulses /\ ret = events
        /\ \A k \in 0 .. n - 1 :
             PcmOutOfTolerance(PulseAt(k)) =>
                /\ Did(k) # <<>> /\ Did(k)[Len(Did(k))] = "clear"
                /\ \A x \in 1 .. Len(Did(k)) : Did(k)[x] # "callback"
                /\ \A i \in 1 .. Len(calls) :
                     /\ calls[i].n # k
                     /\ Delivered(calls[i]) \cap (FrameBefore(k) \cup {k}) = {}
                /\ n = k + 1 => bits = EmptyBits

\* an earlier frame counted one event; then a good pulse and a corrupt last
\* pulse: the frame is dropped and the call returns the one event
C3_Witness ==
    /\ decoder = "pcm" /\ Done /\ n = 3
    /\ ~PcmOutOfTolerance(PulseAt(0)) /\ GapAt(0) > device.reset_limit
    /\ ~PcmOutOfTolerance(PulseAt(1)) /\ GapAt(1) <= device.reset_limit
    /\ PcmOutOfTolerance(PulseAt(2))
    /\ FrameBefore(2) = {1}
    /\ Len(calls) = 1 /\ ret = 1

---------------------------------------------------------------------------
(* Row 0 at a boundary *)

\* C4 as stated: in every decoder the callback is invoked only when row 0
\* of the bit sink holds at least one bit.
C4_CallbackNeverOnEmptyRow0 ==
    \A i \in 1 .. Len(calls) : Len(calls[i].bits[1]) > 0

\* iteration k meets an end-of-transmission gap
ResetGapAt(k) ==
    IF decoder = "ppm" THEN GapAt(k) >= device.reset_limit
                       ELSE GapAt(k) > device.reset_limit

CalledAt(k) == \E i \in 1 .. Len(calls) : calls[i].n = k

\* C4 amended: PCM treats a boundary as a frame only if row 0 holds a bit,
\* and Manchester-ZeroBit's row 0 always holds its leading 0, so in these
\* two the callback never receives a bit sink with an empty row 0.  PPM,
\* PWM, PWM-Precise and PWM-Ternary do not look at row 0: they invoke a
\* registered callback at every end-of-transmission gap they process.
C4_Row0CheckedByPcmAndManchesterOnly ==
    /\ decoder \in {"pcm", "manchester_zerobit"} =>
         \A i \in 1 .. Len(calls) : Len(calls[i].bits[1]) > 0
    /\ (decoder \in {"ppm", "pwm", "pwm_precise", "pwm_ternary"} /\ device.callback) =>
         \A k \in 0 .. n - 1 : ResetGapAt(k) => CalledAt(k)

\* PCM delivered one frame, then met a boundary with nothing accumulated
\* (the pulse was corrupt) and did not invoke the callback
C4_Witness ==
    /\ decoder = "pcm" /\ device.callback /\ n = 2
    /\ GapAt(0) > device.reset_limit /\ CalledAt(0)
    /\ GapAt(1) > device.reset_limit /\ ~CalledAt(1)

---------------------------------------------------------------------------
(* PPM: classification by gap *)

\* what the PPM decoder is to do for gap gp
PpmExpected(gp) ==
    IF gp < device.short_limit THEN <<"0">>
    ELSE IF gp < device.long_limit THEN <<"1">>
    ELSE IF gp < device.reset_limit THEN <<"add_row">>
    ELSE IF device.callback THEN <<"callback", "clear">>
    ELSE <<"clear">>

PpmExampleRun ==
    /\ decoder = "ppm" /\ pulses = PpmExampleTrain /\ n = 4
    /\ device = Dev(10, 20, 30, 0, TRUE, 0, 0)

\* C5: in PPM every pulse/gap pair causes exactly one action, chosen by the
\* gap alone: gap < short_limit adds bit 0, short_limit <= gap < long_limit
\* adds bit 1, long_limit <= gap < reset_limit starts a row, gap >=
\* reset_limit invokes the callback and clears the sink.  Gaps
\* [9, 11, 21, 31] under limits 10/20/30 give bits [0,1], a new row, and one
\* callback invocation, at the fourth gap.
C5_PpmByGapAlone ==
    decoder = "ppm" =>
        /\ \A k \in 0 .. n - 1 : Did(k) = PpmExpected(GapAt(k))
        /\ PpmExampleRun =>
             /\ Len(calls) = 1
             /\ calls[1].n = 3
             /\ calls[1].bits = << <<0, 1>>, <<>> >>
             /\ bits = EmptyBits

\* the example train has been decoded
C5_Witness ==
    /\ PpmExampleRun
    /\ Did(0) = <<"0">> /\ Did(1) = <<"1">> /\ Did(2) = <<"add_row">>
    /\ Did(3) = <<"callback", "clear">>

---------------------------------------------------------------------------
(* PWM: start bit *)

\* number of bits iteration k added
BitsAdded(k) == Cardinality({x \in 1 .. Len(Did(k)) : Did(k)[x] \in {"0", "1"}})

\* pulse k is the first of the call or follows a boundary
PwmFirstOfFrame(k) ==
    \/ k = 0
    \/ GapAt(k - 1) > device.long_limit
    \/ GapAt(k - 1) > device.reset_limit

\* C6: in PWM with start-bit suppression on (demod_arg = 1), the first pulse
\* of the call and the first pulse after every boundary (gap > long_limit or
\* gap > reset_limit) adds no bit whatever its duration, and every other
\* pulse adds exactly one bit.
C6_PwmStartBitOncePerFrame ==
    (decoder = "pwm" /\ device.demod_arg = 1) =>
        \A k \in 0 .. n - 1 : BitsAdded(k) = IF PwmFirstOfFrame(k) THEN 0 ELSE 1

\* first pulse skipped, second pulse decoded, row boundary, third pulse skipped
C6_Witness ==
    /\ decoder = "pwm" /\ device.demod_arg = 1 /\ n = 3
    /\ GapAt(0) <= device.long_limit /\ GapAt(0) <= device.reset_limit
    /\ GapAt(1) > device.long_limit /\ GapAt(1) <= device.reset_limit
    /\ BitsAdded(0) = 0 /\ BitsAdded(1) = 1 /\ BitsAdded(2) = 0
    /\ Len(bits) = 2

---------------------------------------------------------------------------
(* PWM-Ternary: sync selector *)

TernaryBand(pu) ==
    IF pu < device.short_limit THEN "short"
    ELSE IF pu < device.long_limit THEN "middle"
    ELSE "long"

\* the pulses consumed so far cover the three bands
AllBandsSeen == {TernaryBand(PulseAt(k)) : k \in 0 .. n - 1} = {"short", "middle", "long"}

\* how selector sel maps the bands that are not its sync band to bits,
\* over the pulses consumed so far
NonSyncMap(sel) ==
    {<<TernaryBand(PulseAt(k)), ternary_symbol(sel, PulseAt(k))>> : k \in 0 .. n - 1}
    \ {<<b, "add_row">> : b \in {"short", "middle", "long"}}

\* C7: in PWM-Ternary, selector 0 makes a short pulse start a row, a middle
\* pulse add 0 and a long pulse add 1; selector 1 makes a short pulse add 0,
\* a middle pulse start a row and a long pulse add 1.  Over one pulse
\* sequence the selectors 0, 1 and 2 map the non-sync bands to bits in three
\* pairwise different ways.
C7_TernarySelectors ==
    decoder = "pwm_ternary" =>
        /\ \A k \in 0 .. n - 1 :
             LET b == TernaryBand(PulseAt(k))
                 first == Did(k)[1]
             IN  /\ first = ternary_symbol(device.demod_arg, PulseAt(k))
                 /\ device.demod_arg = 0 =>
                      first = CASE b = "short" -> "add_row"
                                [] b = "middle" -> "0"
                                [] b = "long" -> "1"
                 /\ device.demod_arg = 1 =>
                      first = CASE b = "short" -> "0"
                                [] b = "middle" -> "add_row"
                                [] b = "long" -> "1"
        /\ AllBandsSeen =>
             /\ NonSyncMap(0) # NonSyncMap(1)
             /\ NonSyncMap(0) # NonSyncMap(2)
             /\ NonSyncMap(1) # NonSyncMap(2)

\* selector 1 has decoded a short, a middle and a long pulse
C7_Witness ==
    /\ decoder = "pwm_ternary" /\ device.demod_arg = 1 /\ n = 3 /\ AllBandsSeen
    /\ TernaryBand(PulseAt(0)) = "short" /\ Did(0)[1] = "0"
    /\ TernaryBand(PulseAt(1)) = "middle" /\ Did(1)[1] = "add_row"
    /\ TernaryBand(PulseAt(2)) = "long" /\ Did(2)[1] = "1"

\* C8 as stated: with selector 2, or with sync disabled, a short pulse adds
\* 0, a middle pulse adds 0 and a long pulse adds 1; no pulse starts a row.
C8_Selector2IsNoSync ==
    (decoder = "pwm_ternary" /\ device.demod_arg >= 2) =>
        \A k \in 0 .. n - 1 :
            Did(k)[1] = IF TernaryBand(PulseAt(k)) = "long" THEN "1" ELSE "0"

\* C8 amended: with selector 2 the long band is the sync band: a short pulse
\* adds 0, a middle pulse adds 1 and a long pulse starts a new row.  With
\* any other selector value (sync disabled) a short pulse adds 0, a middle
\* pulse adds 1 and a long pulse adds 1, and no pulse starts a new row.
C8_Selector2LongIsSync ==
    (decoder = "pwm_ternary" /\ device.demod_arg >= 2) =>
        \A k \in 0 .. n - 1 :
            LET b == TernaryBand(PulseAt(k))
            IN  Did(k)[1] = CASE b = "short" -> "0"
                              [] b = "middle" -> "1"
                              [] b = "long" ->
                                   IF device.demod_arg = 2 THEN "add_row" ELSE "1"

\* selector 2 has decoded a short, a middle and a long pulse
C8_Witness ==
    /\ decoder = "pwm_ternary" /\ device.demod_arg = 2 /\ n = 3 /\ AllBandsSeen
    /\ TernaryBand(PulseAt(0)) = "short" /\ Did(0)[1] = "0"
    /\ TernaryBand(PulseAt(1)) = "middle" /\ Did(1)[1] = "1"
    /\ TernaryBand(PulseAt(2)) = "long" /\ Did(2)[1] = "add_row"

---------------------------------------------------------------------------
(* Manchester-ZeroBit *)

\* C9: in Manchester-ZeroBit, between pulses row 0 of the bit sink is
\* non-empty and starts with 0: a 0 is added before any pulse is read and
\* again right after each clear at a gap > reset_limit, so every bit sink
\* the callback receives begins with bit 0.
C9_ManchesterLeadingZero ==
    (decoder = "manchester_zerobit" /\ pc # "entry") =>
        /\ Len(bits[1]) > 0 /\ bits[1][1] = 0
        /\ oplog[1] = Op(-1, "add_bit", 0)
        /\ \A k \in 0 .. n - 1 :
             GapAt(k) > device.reset_limit =>
                /\ Len(Did(k)) >= 2
                /\ Did(k)[Len(Did(k)) - 1] = "clear"
                /\ Did(k)[Len(Did(k))] = "0"
        /\ \A i \in 1 .. Len(calls) :
             Len(calls[i].bits[1]) > 0 /\ calls[i].bits[1][1] = 0

\* two transmissions were delivered, the second one with a data bit 1
\* behind its leading 0
C9_Witness ==
    /\ decoder = "manchester_zerobit" /\ n = 2 /\ Len(calls) = 2
    /\ calls[2].bits = << <<0, 1>> >>
    /\ bits = << <<0>> >>

\* more than short_limit * 1.5 has elapsed
ManchesterLate(elapsed) == 2 * elapsed > 3 * device.short_limit

\* time since the last data edge when the gap of the current iteration starts
ManchesterAfterPulse ==
    IF ManchesterLate(PulseAt(n) + time_since_last)
    THEN 0 ELSE time_since_last + PulseAt(n)

\* the operations of the iteration being taken
DidNow == OpNames(OpsOf(oplog', n))

\* C10 as stated: a rising edge (end of a gap) more than short_limit * 1.5
\* after the last recorded data edge adds bit 1, a falling edge (end of a
\* pulse) under the same condition adds bit 0.
C10_RisingOneFallingZero ==
    [][pulse_demod_manchester_zerobit =>
         /\ ManchesterLate(PulseAt(n) + time_since_last) =>
              DidNow # <<>> /\ DidNow[1] = "0"
         /\ (GapAt(n) <= device.reset_limit
             /\ ManchesterLate(GapAt(n) + ManchesterAfterPulse)) =>
              DidNow # <<>> /\ DidNow[Len(DidNow)] = "1"]_vars

\* C10 amended: a falling edge (end of a pulse) more than short_limit * 1.5
\* after the last recorded data edge adds bit 1; a rising edge (end of a gap
\* that is not above reset_limit) under the same condition adds bit 0.
C10_FallingOneRisingZero ==
    [][pulse_demod_manchester_zerobit =>
         /\ ManchesterLate(PulseAt(n) + time_since_last) =>
              DidNow # <<>> /\ DidNow[1] = "1"
         /\ (GapAt(n) <= device.reset_limit
             /\ ManchesterLate(GapAt(n) + ManchesterAfterPulse)) =>
              DidNow # <<>> /\ DidNow[Len(DidNow)] = "0"]_vars

\* a late falling edge and then a late rising edge have been decoded
C10_Witness ==
    /\ decoder = "manchester_zerobit" /\ n = 1
    /\ ManchesterLate(PulseAt(0)) /\ ManchesterLate(GapAt(0))
    /\ GapAt(0) <= device.reset_limit
    /\ Did(0) = <<"1", "0">>
    /\ bits = << <<0, 1, 0>> >>

---------------------------------------------------------------------------
(* PCM: a clean train *)

\* number of entries of oplog with operation name
CountOps(name) == Cardinality({x \in 1 .. Len(oplog) : oplog[x].op = name})

\* every pulse is short_limit wide, every gap but the last is
\* long_limit - short_limit, and the last gap is above reset_limit
PcmCleanTrain ==
    /\ decoder = "pcm" /\ device.callback
    /\ 0 < device.short_limit /\ device.short_limit <= device.long_limit
    /\ device.long_limit <= device.reset_limit
    /\ pulses.num_pulses >= 1
    /\ \A k \in 0 .. pulses.num_pulses - 1 : PulseAt(k) = device.short_limit
    /\ \A k \in 0 .. pulses.num_pulses - 2 :
         GapAt(k) = device.long_limit - device.short_limit
    /\ GapAt(pulses.num_pulses - 1) > device.reset_limit

\* C11: in PCM with a callback and 0 < short_limit <= long_limit <=
\* reset_limit, a train of pulses all equal to short_limit with gaps all
\* equal to long_limit - short_limit but a last gap > reset_limit causes
\* exactly one callback invocation, at the last pulse, on a bit sink of one
\* row; the sink is never cleared for corruption during that train.
C11_PcmCleanTrainOneCallback ==
    PcmCleanTrain =>
        /\ CountOps("clear") = Len(calls)
        /\ \A i \in 1 .. Len(calls) : calls[i].n = pulses.num_pulses - 1
        /\ n < pulses.num_pulses => calls = <<>> /\ Len(bits[1]) = n
        /\ n = pulses.num_pulses =>
             /\ Len(calls) = 1
             /\ Len(calls[1].bits) = 1
             /\ Len(calls[1].bits[1]) >= pulses.num_pulses
             /\ \A j \in 1 .. pulses.num_pulses : calls[1].bits[1][j] = 1

\* three clean RZ pulses have been decoded and delivered
C11_Witness ==
    /\ PcmCleanTrain /\ Done /\ n = 3
    /\ device.short_limit < device.long_limit
    /\ Len(calls) = 1 /\ calls[1].n = 2
    /\ calls[1].bits = << <<1, 1, 1, 0, 0>> >>

---------------------------------------------------------------------------
(* PWM: the start-bit argument *)

\* C13 as stated: PWM reads demod_arg as a boolean: start-bit suppression
\* is on for every nonzero demod_arg and off only for demod_arg = 0.
C13_PwmStartBitForAnyNonzero ==
    decoder = "pwm" =>
        \A k \in 0 .. n - 1 :
            BitsAdded(k) = IF device.demod_arg # 0 /\ PwmFirstOfFrame(k) THEN 0 ELSE 1

\* C13 amended: start-bit suppression is on only for demod_arg = 1; for
\* demod_arg = 0 and for every other value each pulse adds a bit.
C13_PwmStartBitOnlyForOne ==
    decoder = "pwm" =>
        \A k \in 0 .. n - 1 :
            BitsAdded(k) = IF device.demod_arg = 1 /\ PwmFirstOfFrame(k) THEN 0 ELSE 1

\* with demod_arg = 2 the first pulse of the call gave a bit
C13_Witness ==
    /\ decoder = "pwm" /\ device.demod_arg = 2 /\ n = 1
    /\ PwmFirstOfFrame(0) /\ BitsAdded(0) = 1

---------------------------------------------------------------------------
(* PCM: run lengths and end of message *)

Repeat(x, count) == [i \in 1 .. (IF count > 0 THEN count ELSE 0) |-> x]

IsBitOp(x) == x \in {"0", "1"}

\* the bits iteration k added, in order
BitOpsOf(k) == SelectSeq(Did(k), IsBitOp)

PcmHighs(k) == (PulseAt(k) + device.short_limit \div 2) \div device.short_limit

PcmPeriods(k) == (PulseAt(k) + GapAt(k) + device.long_limit \div 2) \div device.long_limit

PcmMaxZeros == device.reset_limit \div device.long_limit

PcmZerosOf(k) ==
    IF PcmPeriods(k) - PcmHighs(k) < PcmMaxZeros
    THEN PcmPeriods(k) - PcmHighs(k) ELSE PcmMaxZeros

\* C14: in PCM each pulse/gap pair adds, in this order, highs =
\* (pulse + short_limit/2) / short_limit one-bits and then
\* min(periods - highs, maxZeros) zero-bits (none when that is <= 0), with
\* periods = (pulse + gap + long_limit/2) / long_limit and maxZeros =
\* reset_limit / long_limit in truncating division; no pair adds more than
\* maxZeros zero-bits.
C14_PcmRunLengths ==
    decoder = "pcm" =>
        \A k \in 0 .. n - 1 :
            /\ BitOpsOf(k) = Repeat("1", PcmHighs(k)) \o Repeat("0", PcmZerosOf(k))
            /\ SubSeq(Did(k), 1, Len(BitOpsOf(k))) = BitOpsOf(k)
            /\ Cardinality({x \in 1 .. Len(Did(k)) : Did(k)[x] = "0"}) <= PcmMaxZeros

\* a pulse of one period before a silence of many: the zeros were limited
C14_Witness ==
    /\ decoder = "pcm" /\ n = 1
    /\ PcmHighs(0) = 1 /\ PcmPeriods(0) - PcmHighs(0) = 3 /\ PcmMaxZeros = 2
    /\ BitOpsOf(0) = <<"1", "0", "0">>

\* row 0 holds a bit once iteration k has added its bits and validated
PcmRowNonEmptyAfter(k) ==
    /\ ~PcmOutOfTolerance(PulseAt(k))
    /\ \/ BitsAdded(k) > 0
       \/ \E j \in FrameBefore(k) : BitsAdded(j) > 0

\* iteration k ran the end-of-message block
PcmEomAt(k) ==
    LET d == Did(k)
        clears == Cardinality({x \in 1 .. Len(d) : d[x] = "clear"})
    IN  /\ d # <<>> /\ d[Len(d)] = "clear"
        /\ clears = IF PcmOutOfTolerance(PulseAt(k)) THEN 2 ELSE 1
        /\ device.callback =>
             /\ Len(d) >= 2 /\ d[Len(d) - 1] = "callback"

\* C15: in PCM end of message (callback if registered, then clear) happens
\* at pulse k if and only if (k is the last pulse or gap[k] > reset_limit)
\* and row 0 holds a bit after pulse k was processed; so the bit sink holds
\* nothing when the call returns.
C15_PcmEndOfMessage ==
    decoder = "pcm" =>
        /\ \A k \in 0 .. n - 1 :
             /\ PcmEomAt(k) <=>
                  /\ k = pulses.num_pulses - 1 \/ GapAt(k) > device.reset_limit
                  /\ PcmRowNonEmptyAfter(k)
             /\ CalledAt(k) <=> (device.callback /\ PcmEomAt(k))
        /\ Done => bits = EmptyBits

\* the train ended without a long gap and the last pulse delivered the
\* frame; an earlier gap equal to reset_limit was no end of message
C15_Witness ==
    /\ decoder = "pcm" /\ Done /\ n = 2
    /\ GapAt(0) = device.reset_limit /\ ~PcmEomAt(0)
    /\ GapAt(1) <= device.reset_limit /\ PcmEomAt(1) /\ CalledAt(1)
    /\ Len(calls[1].bits[1]) >= 2
    /\ bits = EmptyBits

---------------------------------------------------------------------------
(* PWM: bits and boundaries *)

\* what remains of iteration k's operations after its bits
AfterBits(k) == SubSeq(Did(k), Len(BitOpsOf(k)) + 1, Len(Did(k)))

EomOps == IF device.callback THEN <<"callback", "clear">> ELSE <<"clear">>

\* the start-bit flag as the code leaves it after iteration k, read from the
\* state when k is the iteration just done
PwmFlagAfterLast(armed) ==
    n >= 1 => start_bit_detected = IF armed THEN 0
                                   ELSE IF device.demod_arg = 1 THEN 1 ELSE 0

PwmBitRule(k) ==
    BitsAdded(k) = 1 =>
        BitOpsOf(k) = IF PulseAt(k) <= device.short_limit THEN <<"1">> ELSE <<"0">>

\* C16: in PWM a non-start-bit pulse adds 1 when pulse <= short_limit and 0
\* otherwise, whatever the gap; after each pulse, gap > reset_limit invokes
\* the callback, clears the sink and resets the start-bit flag; otherwise
\* gap > long_limit starts a row and resets the flag, with no clear and no
\* callback; otherwise (the gap exceeds neither limit) rows and flag are
\* left alone.  The three gap cases are the code's if / else-if / else, also
\* when reset_limit is below long_limit.
C16_PwmBitsAndBoundaries ==
    decoder = "pwm" =>
        /\ \A k \in 0 .. n - 1 :
             /\ PwmBitRule(k)
             /\ AfterBits(k) =
                  IF GapAt(k) > device.reset_limit THEN EomOps
                  ELSE IF GapAt(k) > device.long_limit THEN <<"add_row">>
                  ELSE <<>>
        /\ n >= 1 =>
             PwmFlagAfterLast(GapAt(n - 1) > device.reset_limit
                              \/ GapAt(n - 1) > device.long_limit)
        /\ n >= 1 /\ GapAt(n - 1) > device.reset_limit => bits = EmptyBits

\* reset_limit below long_limit: a gap between the two ended the
\* transmission after a gap below both had changed nothing
C16_Witness ==
    /\ decoder = "pwm" /\ n = 2 /\ device.reset_limit < device.long_limit
    /\ GapAt(0) <= device.reset_limit /\ AfterBits(0) = <<>>
    /\ GapAt(1) > device.reset_limit /\ GapAt(1) <= device.long_limit
    /\ AfterBits(1) = <<"callback", "clear">>
    /\ Len(calls[1].bits[1]) = 1
    /\ start_bit_detected = 0

---------------------------------------------------------------------------
(* PWM-Precise: classification *)

PreciseIn(pu, ref) ==
    ref - device.pulse_tolerance < pu /\ pu < ref + device.pulse_tolerance

\* C17: PWM-Precise classifies each pulse with strict inequalities:
\* |pulse - short_limit| < tolerance adds 1; |pulse - long_limit| <
\* tolerance adds 0; |pulse - pulse_sync_width| < tolerance starts a row
\* without a bit, and only when pulse_sync_width # 0.  A pulse exactly
\* tolerance away from a reference is outside that band, and with
\* pulse_sync_width = 0 no pulse is classified as sync.
C17_PreciseBands ==
    decoder = "pwm_precise" =>
        /\ \A k \in 0 .. n - 1 :
             LET pu == PulseAt(k)
             IN  /\ Did(k) # <<>>
                 /\ PreciseIn(pu, device.short_limit) => Did(k)[1] = "1"
                 /\ (~PreciseIn(pu, device.short_limit)
                     /\ PreciseIn(pu, device.long_limit)) => Did(k)[1] = "0"
                 /\ Did(k)[1] = "add_row" =>
                      /\ device.pulse_sync_width # 0
                      /\ PreciseIn(pu, device.pulse_sync_width)
                 /\ Did(k)[1] \in {"0", "1", "add_row"}
                 /\ \A ref \in {device.short_limit, device.long_limit} :
                      (pu = ref + device.pulse_tolerance
                       \/ pu = ref - device.pulse_tolerance) =>
                          Did(k)[1] # (IF ref = device.short_limit THEN "1" ELSE "0")
        /\ (Done /\ n < pulses.num_pulses) => NoBand(PulseAt(n))
        /\ device.pulse_sync_width = 0 => CountOps("add_row") = 0

\* a short, a long and a sync pulse have been classified
C17_Witness ==
    /\ decoder = "pwm_precise" /\ n = 3 /\ device.pulse_sync_width # 0
    /\ Did(0)[1] = "1" /\ Did(1)[1] = "0" /\ Did(2)[1] = "add_row"

---------------------------------------------------------------------------
(* The sink across end-of-transmission boundaries *)

\* iteration k meets an end-of-transmission boundary of its decoder
BoundaryAt(k) ==
    IF decoder = "pcm"
    THEN /\ (k = pulses.num_pulses - 1 \/ GapAt(k) > device.reset_limit)
         /\ PcmRowNonEmptyAfter(k)
    ELSE ResetGapAt(k)

\* the sink as a boundary leaves it
FreshSink == IF decoder = "manchester_zerobit" THEN <<<<0>>>> ELSE EmptyBits

\* C18: in every decoder the sink is empty at the start of the call
\* (Manchester: holds only the hardcoded 0) and is cleared right after each
\* end-of-transmission boundary, with or without a callback, so each bit
\* added reaches at most one callback invocation.
C18_SinkClearedAtEveryBoundary ==
    /\ (n = 0 /\ pc = "loop") => bits = FreshSink
    /\ pc = "entry" => bits = EmptyBits
    /\ \A x \in 1 .. Len(oplog) :
         oplog[x].op = "callback" =>
             /\ x < Len(oplog)
             /\ oplog[x + 1].op = "clear" /\ oplog[x + 1].n = oplog[x].n
    /\ \A k \in 0 .. n - 1 : BoundaryAt(k) => ClearedAt(k)
    /\ (n >= 1 /\ BoundaryAt(n - 1)) => bits = FreshSink
    /\ \A i, j \in 1 .. Len(calls) :
         i < j => DeliveredBits(calls[i]) \cap DeliveredBits(calls[j]) = {}

\* two invocations, each handed bits, the second none of the first's
C18_Witness ==
    /\ Len(calls) = 2
    /\ DeliveredBits(calls[1]) # {} /\ DeliveredBits(calls[2]) # {}
    /\ n >= 1 /\ BoundaryAt(n - 1) /\ bits = FreshSink

\* a boundary without a registered callback still cleared the sink
C18_WitnessNoCallback ==
    /\ ~device.callback /\ n = 2 /\ BoundaryAt(0) /\ BitsAdded(0) >= 1
    /\ ClearedAt(0) /\ Held \subseteq {1}

---------------------------------------------------------------------------
(* Callback invocations and reset gaps *)

\* the iterations done so far whose gap ends the transmission
ResetGaps == {k \in 0 .. n - 1 : ResetGapAt(k)}

\* the call ran through the whole train
RanThrough == Done /\ n = pulses.num_pulses

\* C19: in PPM, PWM, PWM-Ternary and Manchester-ZeroBit, and in PWM-Precise
\* calls that do not abort, a registered callback is invoked once per gap
\* above reset_limit (PPM: >= reset_limit); the last pulse is not a
\* boundary, so bits added after the last such gap reach no invocation, and
\* a train without such a gap returns 0 with no invocation.
C19_OneCallbackPerResetGap ==
    decoder # "pcm" =>
        /\ Len(calls) = IF device.callback THEN Cardinality(ResetGaps) ELSE 0
        /\ \A i \in 1 .. Len(calls) : ResetGapAt(calls[i].n)
        /\ \A i, j \in 1 .. Len(calls) : i < j => calls[i].n < calls[j].n
        /\ \A k \in 0 .. n - 1 :
             (\A j \in k .. n - 1 : ~ResetGapAt(j)) =>
                 /\ ~CalledAt(k)
                 /\ \A i \in 1 .. Len(calls) : k \notin Delivered(calls[i])
        /\ (RanThrough /\ ResetGaps = {}) => ret = 0 /\ calls = <<>>

\* a whole train with one reset gap in the middle: one invocation, and the
\* bits of the pulses after it are still in the sink at return
C19_Witness ==
    /\ decoder # "pcm" /\ RanThrough /\ n = 3 /\ device.callback
    /\ ResetGaps = {1} /\ Len(calls) = 1
    /\ BitsAdded(2) >= 1 /\ 2 \in Held

---------------------------------------------------------------------------
(* Manchester: the elapsed-time accumulator *)

\* T = short_limit + floor(short_limit / 2)
ManchesterT == device.short_limit + device.short_limit \div 2

\* C20: in Manchester-ZeroBit, with T = short_limit + floor(short_limit/2),
\* time_since_last <= T after every processed pulse and gap: it is 0 right
\* after each bit added and after each transmission boundary, and otherwise
\* grows by the duration just processed; a bit is added at a pulse end or
\* gap end iff that duration plus time_since_last > T, except that a gap >
\* reset_limit is a boundary and adds no data bit.
C20_ManchesterAccumulator ==
    /\ [](decoder = "manchester_zerobit" =>
              time_since_last >= 0 /\ time_since_last <= ManchesterT)
    /\ [][pulse_demod_manchester_zerobit =>
           LET t0 == time_since_last
               fall == PulseAt(n) + t0 > ManchesterT
               t1 == IF fall THEN 0 ELSE t0 + PulseAt(n)
               boundary == GapAt(n) > device.reset_limit
               rise == ~boundary /\ GapAt(n) + t1 > ManchesterT
               t2 == IF boundary \/ rise THEN 0 ELSE t1 + GapAt(n)
           IN  /\ t1 <= ManchesterT /\ t2 <= ManchesterT
               /\ time_since_last' = t2
               /\ DidNow = (IF fall THEN <<"1">> ELSE <<>>)
                           \o (IF boundary THEN EomOps \o <<"0">>
                               ELSE IF rise THEN <<"0">> ELSE <<>>)]_vars

\* a pulse and a gap that together take exactly T added no bit; the next
\* pulse crossed T and added one, and its reset gap left the accumulator 0
C20_Witness ==
    /\ decoder = "manchester_zerobit" /\ n = 2
    /\ PulseAt(0) + GapAt(0) = ManchesterT /\ Did(0) = <<>>
    /\ PulseAt(1) <= ManchesterT /\ Did(1)[1] = "1"
    /\ GapAt(1) > device.reset_limit /\ time_since_last = 0

====
